---- MODULE Spec2Model ----
(***************************************************************************)
(* A model of src/search_with_langchain.py: the /query gateway            *)
(* (query_function), the stream multiplexer (_raw_stream_response) and    *)
(* the process-wide executor.                                              *)
(*                                                                         *)
(* Python strings are TLA+ strings; a Python value handed to json.dumps   *)
(* is a tagged record (Str, List, Dict, Obj).  The backend                *)
(* (rag_chain.search_with_llm) is not part of the source file: it is      *)
(* modelled from its contract as a lazy sequence that, on every pull,     *)
(* yields a (step, data) pair, ends, or raises.                           *)
(***************************************************************************)
EXTENDS Naturals, Sequences, FiniteSets, TLC

VARIABLES
    phase,      \* where the request is: idle, rejected, error, streaming, ended, aborted
    body,       \* the request body the server received
    status,     \* HTTP status committed for the response (0: none yet)
    call,       \* the arguments search_with_llm was invoked with (NoCall: never invoked)
    pulled,     \* the (step, data) pairs pulled from the backend sequence so far
    pending,    \* what the suspended generator yields next inside the current item
    fault,      \* what failed, if anything: "none", "backend" or "json"
    stream,     \* the chunks _raw_stream_response has yielded, in order
    executor,   \* the ThreadPoolExecutor: max_workers, running jobs, queued jobs
    should_do_related_questions,    \* the module-level flag
    accepted,   \* requests accepted by the server whose handler has not started
    loop,       \* the event-loop thread: "idle" or "in_backend" (inside search_with_llm)
    streaming,  \* requests whose handler returned a StreamingResponse still being sent
    finished    \* requests whose response is complete

vars == <<phase, body, status, call, pulled, pending, fault, stream, executor,
          should_do_related_questions, accepted, loop, streaming, finished>>

reqVars == <<phase, body, status, call, pulled, pending, fault, stream>>
poolVars == <<accepted, loop, streaming, finished>>
globalVars == <<executor, should_do_related_questions>>

----------------------------------------------------------------------------
(* Bounds of the model *)

\* the longest backend sequence explored
MaxItems == 4
\* the number of pieces a query is assembled from
MaxPieces == 3
\* the number of concurrent requests of the pool specification
NumRequests == 17

----------------------------------------------------------------------------
(* Literals of the program *)

_default_query == "When was breath of the wild first released?"

LLM_RESPONSE_DELIMITER == "\n\n__LLM_RESPONSE__\n\n"

RELATED_QUESTIONS_DELIMITER == "\n\n__RELATED_QUESTIONS__\n\n"

DISCLAIMER == "(The search engine returned nothing for this query. Please take the answer with a grain of salt.)\n\n"

max_workers == 16

----------------------------------------------------------------------------
(* Python values and json.dumps *)

Str(s) == [t |-> "str", s |-> s]
List(items) == [t |-> "list", items |-> items]
Dict(pairs) == [t |-> "dict", pairs |-> pairs]
\* a value json.dumps has no encoder for (a set, an arbitrary object)
Obj == [t |-> "object"]

\* the i-th character of a string
CharAt(s, i) == SubSeq(s, i, i)

\* json's escaping of one character inside a string literal
EscapeChar(c) ==
    IF c = "\"" THEN "\\\""
    ELSE IF c = "\\" THEN "\\\\"
    ELSE IF c = "\n" THEN "\\n"
    ELSE IF c = "\t" THEN "\\t"
    ELSE c

RECURSIVE EscapeFrom(_, _)
EscapeFrom(s, i) ==
    IF i > Len(s) THEN "" ELSE EscapeChar(CharAt(s, i)) \o EscapeFrom(s, i + 1)

EncodeString(s) == "\"" \o EscapeFrom(s, 1) \o "\""

\* whether json.dumps(v) returns (TRUE) or raises TypeError (FALSE)
RECURSIVE Serializable(_)
Serializable(v) ==
    CASE v.t = "str" -> TRUE
      [] v.t = "list" -> \A i \in 1..Len(v.items) : Serializable(v.items[i])
      [] v.t = "dict" -> \A i \in 1..Len(v.pairs) : Serializable(v.pairs[i][2])
      [] OTHER -> FALSE

\* json.dumps(v) for a serializable v, with the default separators ", " and ": "
RECURSIVE JsonDumps(_), JoinItems(_, _), JoinPairs(_, _)
JsonDumps(v) ==
    CASE v.t = "str" -> EncodeString(v.s)
      [] v.t = "list" -> "[" \o JoinItems(v.items, 1) \o "]"
      [] v.t = "dict" -> "{" \o JoinPairs(v.pairs, 1) \o "}"

JoinItems(items, i) ==
    IF i > Len(items) THEN ""
    ELSE (IF i > 1 THEN ", " ELSE "") \o JsonDumps(items[i]) \o JoinItems(items, i + 1)

JoinPairs(pairs, i) ==
    IF i > Len(pairs) THEN ""
    ELSE (IF i > 1 THEN ", " ELSE "") \o EncodeString(pairs[i][1]) \o ": "
         \o JsonDumps(pairs[i][2]) \o JoinPairs(pairs, i + 1)

\* Truthy with the test `data is None` in place of `not data`
TruthyUnlessNone(v) == TRUE

\* Python truthiness, as `not data` tests it
Truthy(v) ==
    CASE v.t = "str" -> v.s # ""
      [] v.t = "list" -> Len(v.items) > 0
      [] v.t = "dict" -> Len(v.pairs) > 0
      [] OTHER -> TRUE

\* the concatenation of a sequence of chunks: the bytes the client receives
RECURSIVE Bytes(_)
Bytes(chunks) ==
    IF chunks = <<>> THEN "" ELSE Head(chunks) \o Bytes(Tail(chunks))

----------------------------------------------------------------------------
(* The request body and its validation (QueryRequest) *)

\* a JSON body: the fields it carries and their values
Body(fields, query, grq) ==
    [fields |-> fields, query |-> query, generate_related_questions |-> grq]

NoBody == Body({}, "", TRUE)

\* QueryRequestValid with search_uuid declared optional
QueryRequestValidQueryOnly(b) == "query" \in b.fields

\* query and search_uuid are required, generate_related_questions is optional
QueryRequestValid(b) == {"query", "search_uuid"} \subseteq b.fields

\* the parsed model: generate_related_questions defaults to True
QueryRequest(b) ==
    [query |-> b.query,
     generate_related_questions |->
        IF "generate_related_questions" \in b.fields
        THEN b.generate_related_questions ELSE TRUE]

----------------------------------------------------------------------------
(* re.sub(r"\[/?INST\]", "", query) *)

\* the length of the match of \[/?INST\] that starts at position i, 0 if none
MatchAt(s, i) ==
    IF i + 6 <= Len(s) /\ SubSeq(s, i, i + 6) = "[/INST]" THEN 7
    ELSE IF i + 5 <= Len(s) /\ SubSeq(s, i, i + 5) = "[INST]" THEN 6
    ELSE 0

\* one left-to-right pass: a match is dropped and the scan resumes after it
RECURSIVE ReSubFrom(_, _)
ReSubFrom(s, i) ==
    IF i > Len(s) THEN ""
    ELSE IF MatchAt(s, i) > 0 THEN ReSubFrom(s, i + MatchAt(s, i))
    ELSE CharAt(s, i) \o ReSubFrom(s, i + 1)

Sanitize(query) == ReSubFrom(query, 1)

\* OrDefault without the fallback
OrDefaultMissing(query) == query

\* query or _default_query
OrDefault(query) == IF query = "" THEN _default_query ELSE query

\* DispatchedQuery with the default substituted after the markers are removed
DispatchedQueryDefaultLast(query) == OrDefault(Sanitize(query))

\* the query search_with_llm receives for a parsed request
DispatchedQuery(query) == Sanitize(OrDefault(query))

----------------------------------------------------------------------------
(* The backend sequence and the frames of one item *)

Item(step, data) == [step |-> step, data |-> data]

NoCall == [invoked |-> FALSE, query |-> "", generate_related_questions |-> TRUE]

\* ItemRaises without the try/except around the related questions' json.dumps
ItemRaisesUncaught(item) ==
    item.step \in {"contexts", "related_questions"} /\ ~Serializable(item.data)

\* whether handling the item raises inside the generator
ItemRaises(item) == item.step = "contexts" /\ ~Serializable(item.data)

\* Frames with the contexts delimiter yielded before the contexts
FramesDelimiterFirst(item) ==
    CASE item.step = "contexts" ->
            <<LLM_RESPONSE_DELIMITER \o JsonDumps(item.data)>>
      [] item.step = "llm_response" ->
            IF ~Truthy(item.data) THEN <<DISCLAIMER, item.data.s>>
            ELSE <<item.data.s>>
      [] item.step = "related_questions" ->
            <<RELATED_QUESTIONS_DELIMITER
              \o (IF Serializable(item.data) THEN JsonDumps(item.data) ELSE "[]")>>
      [] OTHER -> <<>>

\* Frames with the response delimiter yielded ahead of every answer chunk too
FramesDelimiterOnAnswer(item) ==
    CASE item.step = "contexts" ->
            <<JsonDumps(item.data) \o LLM_RESPONSE_DELIMITER>>
      [] item.step = "llm_response" ->
            IF ~Truthy(item.data) THEN <<DISCLAIMER, item.data.s>>
            ELSE <<LLM_RESPONSE_DELIMITER \o item.data.s>>
      [] item.step = "related_questions" ->
            <<RELATED_QUESTIONS_DELIMITER
              \o (IF Serializable(item.data) THEN JsonDumps(item.data) ELSE "[]")>>
      [] OTHER -> <<>>

\* Frames matching the step name "answer" where the code matches "llm_response"
FramesAnswerName(item) ==
    CASE item.step = "contexts" ->
            <<JsonDumps(item.data) \o LLM_RESPONSE_DELIMITER>>
      [] item.step = "answer" ->
            IF ~Truthy(item.data) THEN <<DISCLAIMER, item.data.s>>
            ELSE <<item.data.s>>
      [] item.step = "related_questions" ->
            <<RELATED_QUESTIONS_DELIMITER
              \o (IF Serializable(item.data) THEN JsonDumps(item.data) ELSE "[]")>>
      [] OTHER -> <<>>

\* Frames with a final else branch that yields the data of an unmatched step
FramesUnmatchedAsAnswer(item) ==
    CASE item.step = "contexts" ->
            <<JsonDumps(item.data) \o LLM_RESPONSE_DELIMITER>>
      [] item.step = "llm_response" ->
            IF ~Truthy(item.data) THEN <<DISCLAIMER, item.data.s>>
            ELSE <<item.data.s>>
      [] item.step = "related_questions" ->
            <<RELATED_QUESTIONS_DELIMITER
              \o (IF Serializable(item.data) THEN JsonDumps(item.data) ELSE "[]")>>
      [] OTHER -> <<item.data.s>>

\* the chunks the generator yields for one item, in order
Frames(item) ==
    CASE item.step = "contexts" ->
            <<JsonDumps(item.data) \o LLM_RESPONSE_DELIMITER>>
      [] item.step = "llm_response" ->
            IF ~Truthy(item.data) THEN <<DISCLAIMER, item.data.s>>
            ELSE <<item.data.s>>
      [] item.step = "related_questions" ->
            <<RELATED_QUESTIONS_DELIMITER
              \o (IF Serializable(item.data) THEN JsonDumps(item.data) ELSE "[]")>>
      [] OTHER -> <<>>

\* the pairs the backend may yield for a call: a call made with
\* generate_related_questions false generates no related questions
BackendYields(I, c) ==
    IF c.generate_related_questions THEN I
    ELSE {item \in I : item.step # "related_questions"}

----------------------------------------------------------------------------
(* The inputs the specifications draw from *)

ContextsPayloads ==
    { List(<<Dict(<< <<"url", Str("u\"1")>> >>)>>), List(<<Obj>>) }

AnswerTexts == {"", "a1", "a2"}

RelatedPayloads == { List(<<Str("q1"), Str("q2")>>), List(<<Obj>>) }

\* the pairs a backend can yield, the contract's name "answer" included
Items ==
    {Item("contexts", c) : c \in ContextsPayloads}
    \cup {Item("llm_response", Str(a)) : a \in AnswerTexts}
    \cup {Item("related_questions", q) : q \in RelatedPayloads}
    \cup {Item("answer", Str("a1"))}

GatewayItems == {Item("llm_response", Str(""))}

QueryPieces == {"[INST]", "[/INST]", "[IN", "ST]", "[/", "hi"}

RECURSIVE Concat(_)
Concat(pieces) ==
    IF pieces = <<>> THEN "" ELSE Head(pieces) \o Concat(Tail(pieces))

Queries ==
    UNION {{Concat(p) : p \in [1..n -> QueryPieces]} : n \in 0..MaxPieces}

FieldSets ==
    {{"query", "search_uuid", "generate_related_questions"},
     {"query", "search_uuid"}, {"search_uuid"}, {"query"}}

\* a field that is absent carries its neutral value
Bodies ==
    {Body(f, q, g) : f \in FieldSets, q \in Queries, g \in BOOLEAN} \ 
    {b \in {Body(f, q, g) : f \in FieldSets, q \in Queries, g \in BOOLEAN} :
        \/ ("query" \notin b.fields /\ b.query # "")
        \/ ("generate_related_questions" \notin b.fields
            /\ ~b.generate_related_questions)}

StreamBodies ==
    {Body(f, q, g) : f \in {{"query", "search_uuid", "generate_related_questions"}},
                     q \in {"", "hi"}, g \in BOOLEAN}
    \cup {Body({"query", "search_uuid"}, "hi", TRUE)}
    \cup {Body({"search_uuid"}, "", TRUE)}

----------------------------------------------------------------------------
(* One request, from its arrival to the end of its response *)

InitGlobals ==
    /\ executor = [max_workers |-> max_workers, running |-> 0, queued |-> 0]
    /\ should_do_related_questions = TRUE

InitRequest ==
    /\ phase = "idle"
    /\ body = NoBody
    /\ status = 0
    /\ call = NoCall
    /\ pulled = <<>>
    /\ pending = <<>>
    /\ fault = "none"
    /\ stream = <<>>

InitPool ==
    /\ accepted = 0
    /\ loop = "idle"
    /\ streaming = 0
    /\ finished = 0

Init == InitGlobals /\ InitRequest /\ InitPool

\* a body that fails QueryRequest's validation never reaches the handler
RejectRequest(B) ==
    /\ phase = "idle"
    /\ \E b \in B :
        /\ ~QueryRequestValid(b)
        /\ body' = b
        /\ phase' = "rejected"
        /\ status' = 422
        /\ UNCHANGED <<call, pulled, pending, fault, stream>>
        /\ UNCHANGED <<globalVars, poolVars>>

\* Dispatch with the request's generate_related_questions not handed to the call
DispatchIgnoresFlag(b) ==
    /\ QueryRequestValid(b)
    /\ body' = b
    /\ call' = [invoked |-> TRUE,
                query |-> DispatchedQuery(QueryRequest(b).query),
                generate_related_questions |-> TRUE]
    /\ UNCHANGED <<pulled, pending, stream>>
    /\ UNCHANGED <<globalVars, poolVars>>

\* the handler up to its call of search_with_llm(query, generate_related_questions)
Dispatch(b) ==
    /\ QueryRequestValid(b)
    /\ body' = b
    /\ call' = [invoked |-> TRUE,
                query |-> DispatchedQuery(QueryRequest(b).query),
                generate_related_questions |->
                    QueryRequest(b).generate_related_questions]
    /\ UNCHANGED <<pulled, pending, stream>>
    /\ UNCHANGED <<globalVars, poolVars>>

\* search_with_llm raises: nothing in the handler catches it
CallRaises(B) ==
    /\ phase = "idle"
    /\ \E b \in B :
        /\ Dispatch(b)
        /\ phase' = "error"
        /\ status' = 500
        /\ fault' = "backend"

\* search_with_llm returns its sequence: the handler wraps it in the generator,
\* which has not run yet, and returns StreamingResponse (status 200)
CallReturns(B) ==
    /\ phase = "idle"
    /\ \E b \in B :
        /\ Dispatch(b)
        /\ phase' = "streaming"
        /\ status' = 200
        /\ fault' = "none"

query_function(B) == CallRaises(B) \/ CallReturns(B)

\* the generator is suspended inside an item: the next yield of that item
ResumeItem ==
    /\ phase = "streaming"
    /\ pending # <<>>
    /\ stream' = Append(stream, Head(pending))
    /\ pending' = Tail(pending)
    /\ UNCHANGED <<phase, pulled, fault>>
    /\ UNCHANGED <<body, status, call>>
    /\ UNCHANGED <<globalVars, poolVars>>

\* PullItem with the first chunk of an item put ahead of the chunks already sent
PullItemReorders(I) ==
    /\ phase = "streaming"
    /\ pending = <<>>
    /\ Len(pulled) < MaxItems
    /\ \E item \in BackendYields(I, call) :
        /\ pulled' = Append(pulled, item)
        /\ IF ItemRaises(item)
           THEN /\ phase' = "aborted"
                /\ fault' = "json"
                /\ UNCHANGED <<stream, pending>>
           ELSE /\ UNCHANGED <<phase, fault>>
                /\ IF Frames(item) = <<>>
                   THEN UNCHANGED <<stream, pending>>
                   ELSE /\ stream' = <<Head(Frames(item))>> \o stream
                        /\ pending' = Tail(Frames(item))
    /\ UNCHANGED <<body, status, call>>
    /\ UNCHANGED <<globalVars, poolVars>>

\* PullItem with the contexts' json.dumps guarded like the related questions' one
PullItemRecoversContexts(I) ==
    /\ phase = "streaming"
    /\ pending = <<>>
    /\ Len(pulled) < MaxItems
    /\ \E item \in BackendYields(I, call) :
        /\ pulled' = Append(pulled, item)
        /\ UNCHANGED <<phase, fault>>
        /\ IF ItemRaises(item)
           THEN /\ stream' = Append(stream, "[]" \o LLM_RESPONSE_DELIMITER)
                /\ pending' = <<>>
           ELSE IF Frames(item) = <<>>
                THEN UNCHANGED <<stream, pending>>
                ELSE /\ stream' = Append(stream, Head(Frames(item)))
                     /\ pending' = Tail(Frames(item))
    /\ UNCHANGED <<body, status, call>>
    /\ UNCHANGED <<globalVars, poolVars>>

\* the for loop pulls the next pair and handles it up to its first yield
PullItem(I) ==
    /\ phase = "streaming"
    /\ pending = <<>>
    /\ Len(pulled) < MaxItems
    /\ \E item \in BackendYields(I, call) :
        /\ pulled' = Append(pulled, item)
        /\ IF ItemRaises(item)
           THEN /\ phase' = "aborted"
                /\ fault' = "json"
                /\ UNCHANGED <<stream, pending>>
           ELSE /\ UNCHANGED <<phase, fault>>
                /\ IF Frames(item) = <<>>
                   THEN UNCHANGED <<stream, pending>>
                   ELSE /\ stream' = Append(stream, Head(Frames(item)))
                        /\ pending' = Tail(Frames(item))
    /\ UNCHANGED <<body, status, call>>
    /\ UNCHANGED <<globalVars, poolVars>>

\* the backend sequence is exhausted: the generator returns
SequenceEnds ==
    /\ phase = "streaming"
    /\ pending = <<>>
    /\ phase' = "ended"
    /\ UNCHANGED <<pulled, pending, fault, stream>>
    /\ UNCHANGED <<body, status, call>>
    /\ UNCHANGED <<globalVars, poolVars>>

\* SequenceRaises with the failure reported to the client as a frame
SequenceRaisesErrorFrame ==
    /\ phase = "streaming"
    /\ pending = <<>>
    /\ phase' = "aborted"
    /\ fault' = "backend"
    /\ stream' = Append(stream, "\n\n__ERROR__\n\n")
    /\ UNCHANGED <<pulled, pending>>
    /\ UNCHANGED <<body, status, call>>
    /\ UNCHANGED <<globalVars, poolVars>>

\* the backend sequence raises on this pull: the generator raises with it
SequenceRaises ==
    /\ phase = "streaming"
    /\ pending = <<>>
    /\ phase' = "aborted"
    /\ fault' = "backend"
    /\ UNCHANGED <<pulled, pending, stream>>
    /\ UNCHANGED <<body, status, call>>
    /\ UNCHANGED <<globalVars, poolVars>>

\* one resumption of the generator by the consumer of the response body
_raw_stream_response(I) ==
    ResumeItem \/ PullItem(I) \/ SequenceEnds \/ SequenceRaises

Next ==
    \/ RejectRequest(StreamBodies)
    \/ query_function(StreamBodies)
    \/ _raw_stream_response(Items)

Spec == Init /\ [][Next]_vars

NextGateway ==
    \/ RejectRequest(Bodies)
    \/ query_function(Bodies)
    \/ _raw_stream_response(GatewayItems)

SpecGateway == Init /\ [][NextGateway]_vars

----------------------------------------------------------------------------
(* Concurrent requests: the event loop, the handler and the executor *)

\* backend calls that have started and not returned
InFlight == (IF loop = "in_backend" THEN 1 ELSE 0) + executor.running

Requests == accepted + (IF loop = "in_backend" THEN 1 ELSE 0) + streaming + finished

\* the server accepts a request; its handler is scheduled on the event loop
Accept ==
    /\ Requests < NumRequests
    /\ accepted' = accepted + 1
    /\ UNCHANGED <<loop, streaming, finished>>
    /\ UNCHANGED <<globalVars, reqVars>>

\* EnterBackend with the request's flag stored in the module-level setting
EnterBackendStoresFlag ==
    /\ loop = "idle"
    /\ accepted > 0
    /\ accepted' = accepted - 1
    /\ loop' = "in_backend"
    /\ should_do_related_questions' = FALSE
    /\ UNCHANGED <<streaming, finished, executor>>
    /\ UNCHANGED reqVars

\* the event loop runs the coroutine query_function up to its call of
\* search_with_llm, made directly on the loop's thread: nothing is submitted
\* to the executor
EnterBackend ==
    /\ loop = "idle"
    /\ accepted > 0
    /\ accepted' = accepted - 1
    /\ loop' = "in_backend"
    /\ UNCHANGED <<streaming, finished>>
    /\ UNCHANGED <<globalVars, reqVars>>

\* the call returns and the handler returns the StreamingResponse
LeaveBackend ==
    /\ loop = "in_backend"
    /\ loop' = "idle"
    /\ streaming' = streaming + 1
    /\ UNCHANGED <<accepted, finished>>
    /\ UNCHANGED <<globalVars, reqVars>>

\* the call raises and the request ends with the server error
FailBackend ==
    /\ loop = "in_backend"
    /\ loop' = "idle"
    /\ finished' = finished + 1
    /\ UNCHANGED <<accepted, streaming>>
    /\ UNCHANGED <<globalVars, reqVars>>

\* a response body has been sent to its end
FinishStream ==
    /\ streaming > 0
    /\ streaming' = streaming - 1
    /\ finished' = finished + 1
    /\ UNCHANGED <<accepted, loop>>
    /\ UNCHANGED <<globalVars, reqVars>>

NextPool == Accept \/ EnterBackend \/ LeaveBackend \/ FailBackend \/ FinishStream

SpecPool == Init /\ [][NextPool]_vars

----------------------------------------------------------------------------
(* The claims *)

\* whether sub occurs in s
Contains(s, sub) ==
    \E i \in 1..Len(s) :
        i + Len(sub) - 1 <= Len(s) /\ SubSeq(s, i, i + Len(sub) - 1) = sub

\* whether the characters of a are characters of b in b's order
RECURSIVE IsSubsequenceFrom(_, _, _, _)
IsSubsequenceFrom(a, i, b, j) ==
    IF i > Len(a) THEN TRUE
    ELSE IF j > Len(b) THEN FALSE
    ELSE IF CharAt(a, i) = CharAt(b, j) THEN IsSubsequenceFrom(a, i + 1, b, j + 1)
    ELSE IsSubsequenceFrom(a, i, b, j + 1)

StagedSequence(c, a1, a2, qs) ==
    <<Item("contexts", c), Item("llm_response", Str(a1)),
      Item("llm_response", Str(a2)), Item("related_questions", qs)>>

\* C1: for the sequence [Contexts(c), AnswerChunk(a1), AnswerChunk(a2),
\* RelatedQuestions(qs)] with non-empty a1 and a2, pulled to its end, the bytes of
\* the stream are json(c), the response delimiter, a1, a2, the related-questions
\* delimiter and json(qs), and nothing else.
C1_StagedSequenceBytes ==
    \A c \in ContextsPayloads, qs \in RelatedPayloads :
        \A a1 \in AnswerTexts \ {""}, a2 \in AnswerTexts \ {""} :
            (/\ Serializable(c)
             /\ Serializable(qs)
             /\ phase = "ended"
             /\ pulled = StagedSequence(c, a1, a2, qs))
            => Bytes(stream) = JsonDumps(c) \o LLM_RESPONSE_DELIMITER \o a1 \o a2
                               \o RELATED_QUESTIONS_DELIMITER \o JsonDumps(qs)

C1_Witness ==
    /\ phase = "ended"
    /\ pulled = StagedSequence(List(<<Dict(<< <<"url", Str("u\"1")>> >>)>>), "a1", "a2",
                               List(<<Str("q1"), Str("q2")>>))
    /\ Bytes(stream) = "[{\"url\": \"u\\\"1\"}]\n\n__LLM_RESPONSE__\n\na1a2\n\n__RELATED_QUESTIONS__\n\n[\"q1\", \"q2\"]"

\* C2 (as claimed): whenever the query of a request contains [INST] or [/INST],
\* the query handed to the backend contains neither marker and is made of the
\* remaining characters of the input in their order.
C2_NoMarkerDispatched ==
    (/\ call.invoked
     /\ (Contains(body.query, "[INST]") \/ Contains(body.query, "[/INST]")))
    => /\ ~Contains(call.query, "[INST]")
       /\ ~Contains(call.query, "[/INST]")
       /\ IsSubsequenceFrom(call.query, 1, body.query, 1)

\* C3 (as claimed): a request whose query field is empty or missing has the
\* backend invoked with exactly the default query.
C3_EmptyOrMissingDefault ==
    (/\ phase # "idle"
     /\ "search_uuid" \in body.fields
     /\ ("query" \notin body.fields \/ body.query = ""))
    => (call.invoked /\ call.query = _default_query)

\* C3 (amended): a request whose query field is present and empty has the backend
\* invoked with exactly the default query; a request whose query field is missing
\* is rejected by validation and the backend is not invoked.
C3_EmptyQueryDefault ==
    (phase # "idle" /\ "search_uuid" \in body.fields)
    => /\ ("query" \in body.fields /\ body.query = "")
            => (call.invoked /\ call.query = _default_query)
       /\ "query" \notin body.fields
            => (~call.invoked /\ phase = "rejected" /\ status = 422)

C3_Witness ==
    /\ phase = "streaming"
    /\ body.fields = {"query", "search_uuid"}
    /\ body.query = ""
    /\ call.invoked
    /\ call.query = "When was breath of the wild first released?"

\* C4 (as claimed): at most max_workers backend calls are in flight, and a request
\* whose backend call has not started is never kept waiting while fewer than
\* max_workers calls are in flight.
C4_PoolConcurrency ==
    /\ InFlight <= max_workers
    /\ (accepted > 0 /\ InFlight < max_workers) => ENABLED EnterBackend
    /\ InFlight = max_workers => ~ENABLED EnterBackend

\* C5 (as claimed): every backend call in flight runs on a worker of the executor
\* and never on the request-accepting thread.
C5_BackendOnPoolWorker ==
    /\ loop # "in_backend"
    /\ executor.running = InFlight

\* C6: when the backend sequence raises right after a Contexts item, the stream is
\* the contexts frame with its delimiter and nothing more is ever emitted.
C6_FailAfterContexts ==
    \A c \in ContextsPayloads :
        (/\ Serializable(c)
         /\ phase = "aborted"
         /\ fault = "backend"
         /\ pulled = <<Item("contexts", c)>>)
        => /\ stream = <<JsonDumps(c) \o LLM_RESPONSE_DELIMITER>>
           /\ ~ENABLED Next

C6_Witness ==
    /\ phase = "aborted"
    /\ fault = "backend"
    /\ pulled = <<Item("contexts", List(<<Dict(<< <<"url", Str("u\"1")>> >>)>>))>>
    /\ Bytes(stream) = "[{\"url\": \"u\\\"1\"}]\n\n__LLM_RESPONSE__\n\n"

\* C7: pulling a RelatedQuestions item whose payload json.dumps cannot encode
\* yields the related-questions delimiter followed by "[]" as one chunk, raises
\* nothing and leaves the generator going.
C7_RelatedQuestionsFallback ==
    [][\A q \in RelatedPayloads :
        (/\ ~Serializable(q)
         /\ pulled' = Append(pulled, Item("related_questions", q)))
        => /\ stream' = Append(stream, RELATED_QUESTIONS_DELIMITER \o "[]")
           /\ pending' = <<>>
           /\ phase' = "streaming"
           /\ fault' = "none"]_vars

C7_Witness ==
    /\ pulled = <<Item("related_questions", List(<<Obj>>)),
                  Item("llm_response", Str("a1"))>>
    /\ stream = <<"\n\n__RELATED_QUESTIONS__\n\n[]", "a1">>
    /\ phase = "ended"

\* C8 (as claimed): a backend failure before any output byte was written gives the
\* client a server error, never a successful response with an empty body.
C8_FailureBeforeOutput ==
    (fault = "backend" /\ Bytes(stream) = "")
    => (status = 500 /\ phase = "error")

\* C9: for the sequence [AnswerChunk("")] alone the stream is the disclaimer,
\* with nothing before it, followed by the empty chunk.
C9_EmptyAnswerDisclaimer ==
    (phase = "ended" /\ pulled = <<Item("llm_response", Str(""))>>)
    => /\ stream = <<DISCLAIMER, "">>
       /\ Bytes(stream) = DISCLAIMER

C9_Witness ==
    /\ phase = "ended"
    /\ pulled = <<Item("llm_response", Str(""))>>
    /\ Len(stream) = 2
    /\ stream[1] = "(The search engine returned nothing for this query. Please take the answer with a grain of salt.)\n\n"
    /\ stream[2] = ""

\* C10 (as claimed): the disclaimer is yielded at most once in a stream, and never
\* after an answer chunk has been yielded.
C10_DisclaimerOnlyFirst ==
    /\ Cardinality({i \in 1..Len(stream) : stream[i] = DISCLAIMER}) <= 1
    /\ \A i \in 1..Len(stream) :
        stream[i] = DISCLAIMER => \A j \in 1..(i - 1) : stream[j] \notin AnswerTexts

\* the chunks of the stream that carry the response delimiter
DelimiterChunks ==
    {i \in 1..Len(stream) : Contains(stream[i], LLM_RESPONSE_DELIMITER)}

\* the pulled Contexts items whose payload json.dumps encodes
EncodableContexts ==
    {i \in 1..Len(pulled) :
        pulled[i].step = "contexts" /\ Serializable(pulled[i].data)}

\* C11 (as claimed): whatever the backend yields, at most one chunk of the stream
\* carries the response delimiter, and none does when no Contexts item was pulled.
C11_ContextsFrameAtMostOnce ==
    /\ Cardinality(DelimiterChunks) <= 1
    /\ (\A i \in 1..Len(pulled) : pulled[i].step # "contexts") => DelimiterChunks = {}

\* C11 (amended): the stream carries one contexts frame with its delimiter for
\* each encodable Contexts item pulled: none without such an item, one with one,
\* and one more for every further Contexts item the backend yields.
C11_ContextsFramePerItem ==
    Cardinality(DelimiterChunks) = Cardinality(EncodableContexts)

C11_Witness ==
    /\ phase = "ended"
    /\ pulled = <<Item("contexts", List(<<Dict(<< <<"url", Str("u\"1")>> >>)>>)),
                  Item("llm_response", Str("a1"))>>
    /\ stream = <<"[{\"url\": \"u\\\"1\"}]\n\n__LLM_RESPONSE__\n\n", "a1">>
    /\ Cardinality(DelimiterChunks) = 1

\* the last chunk the current item has yielded or is about to yield
LastChunk(chunks) == chunks[Len(chunks)]

\* C12 (as claimed): pulling a pair named "contexts", "answer" or
\* "related_questions" yields a frame, and the payload of an "answer" pair is
\* yielded verbatim.
C12_ContractNamesEmitted ==
    [][\A item \in Items :
        (/\ pulled' = Append(pulled, item)
         /\ item.step \in {"contexts", "answer", "related_questions"}
         /\ (item.step = "contexts" => Serializable(item.data)))
        => /\ Len(stream') = Len(stream) + 1
           /\ item.step = "answer" => LastChunk(stream' \o pending') = item.data.s]_vars

\* C12 (amended): pulling a pair named "contexts" (with an encodable payload),
\* "llm_response" or "related_questions" yields a frame: the contexts with the
\* response delimiter, the answer text verbatim, the related-questions delimiter
\* with its body.
C12_MatchedNamesEmitted ==
    [][\A item \in Items :
        (/\ pulled' = Append(pulled, item)
         /\ item.step \in {"contexts", "llm_response", "related_questions"}
         /\ (item.step = "contexts" => Serializable(item.data)))
        => /\ Len(stream') = Len(stream) + 1
           /\ item.step = "llm_response"
                => LastChunk(stream' \o pending') = item.data.s
           /\ item.step = "contexts"
                => LastChunk(stream') = JsonDumps(item.data) \o LLM_RESPONSE_DELIMITER
           /\ item.step = "related_questions"
                => Contains(LastChunk(stream'), RELATED_QUESTIONS_DELIMITER)]_vars

C12_Witness ==
    /\ phase = "ended"
    /\ pulled = <<Item("llm_response", Str("a2"))>>
    /\ stream = <<"a2">>

\* the chunks an item yields, none when handling it raises
EmittedFor(item) == IF ItemRaises(item) THEN <<>> ELSE Frames(item)

RECURSIVE ExpectedChunks(_)
ExpectedChunks(items) ==
    IF items = <<>> THEN <<>>
    ELSE EmittedFor(Head(items)) \o ExpectedChunks(Tail(items))

\* C13: the chunks sent and those the current item still has to yield are the
\* frames of the pulled items in the order they were pulled, whatever that order
\* is, and what is still to yield belongs to the item pulled last.
C13_OrderPreserved ==
    /\ stream \o pending = ExpectedChunks(pulled)
    /\ pending # <<>>
        => /\ pulled # <<>>
           /\ \E k \in 1..Len(Frames(pulled[Len(pulled)])) :
                pending = SubSeq(Frames(pulled[Len(pulled)]), k + 1,
                                 Len(Frames(pulled[Len(pulled)])))

C13_Witness ==
    /\ pulled = <<Item("related_questions", List(<<Str("q1"), Str("q2")>>)),
                  Item("llm_response", Str("a1"))>>
    /\ stream = <<"\n\n__RELATED_QUESTIONS__\n\n[\"q1\", \"q2\"]", "a1">>
    /\ pending = <<>>

\* C14: a request without its query field or without its search_uuid is rejected
\* with the validation error: the backend is never invoked for it and nothing is
\* pulled or streamed.
C14_InvalidRejected ==
    (/\ phase # "idle"
     /\ ("query" \notin body.fields \/ "search_uuid" \notin body.fields))
    => /\ phase = "rejected"
       /\ status = 422
       /\ ~call.invoked
       /\ pulled = <<>>
       /\ stream = <<>>

C14_Witness ==
    /\ phase = "rejected"
    /\ body.fields = {"query"}
    /\ body.query = "hi"
    /\ status = 422
    /\ ~call.invoked

\* the non-empty queries made of markers only
OnlyMarkers ==
    UNION {{Concat(p) : p \in [1..n -> {"[INST]", "[/INST]"}]} : n \in 1..MaxPieces}

\* C17: the dispatched query is the sanitized query, or the sanitized default when
\* the query is empty; a non-empty query made of markers only is dispatched as
\* the empty string.
C17_DefaultBeforeSanitize ==
    call.invoked
    => /\ call.query = Sanitize(IF body.query = "" THEN _default_query ELSE body.query)
       /\ body.query \in OnlyMarkers => call.query = ""

C17_Witness ==
    /\ phase = "streaming"
    /\ body.query = "[INST][/INST]"
    /\ call.invoked
    /\ call.query = ""

\* whether the generator has a branch for the item's step name
IsMatched(item) == item.step \in {"contexts", "llm_response", "related_questions"}

\* C18: pulling a pair whose step name the generator does not match yields
\* nothing, raises nothing and leaves the generator going, and the chunks of the
\* stream are those of the sequence without such pairs.
C18_UnmatchedIgnored ==
    /\ [](stream \o pending = ExpectedChunks(SelectSeq(pulled, IsMatched)))
    /\ [][\A item \in Items :
            (pulled' = Append(pulled, item) /\ ~IsMatched(item))
            => /\ stream' = stream
               /\ pending' = pending
               /\ phase' = "streaming"
               /\ fault' = "none"]_vars

C18_Witness ==
    /\ phase = "ended"
    /\ pulled = <<Item("answer", Str("a1")), Item("llm_response", Str("a2"))>>
    /\ stream = <<"a2">>

\* C19: pulling a Contexts item whose payload json.dumps cannot encode raises out
\* of the generator: no chunk is yielded for the item, and nothing is pulled or
\* yielded afterwards.
C19_ContextsFailurePropagates ==
    /\ [](fault = "json" => (phase = "aborted" /\ pending = <<>> /\ ~ENABLED Next))
    /\ [][\A c \in ContextsPayloads :
            (~Serializable(c) /\ pulled' = Append(pulled, Item("contexts", c)))
            => /\ stream' = stream
               /\ pending' = <<>>
               /\ phase' = "aborted"
               /\ fault' = "json"]_vars

C19_Witness ==
    /\ phase = "aborted"
    /\ fault = "json"
    /\ pulled = <<Item("llm_response", Str("a1")), Item("contexts", List(<<Obj>>))>>
    /\ stream = <<"a1">>

\* the chunks of the stream that carry the related-questions delimiter
RelatedChunks ==
    {i \in 1..Len(stream) : Contains(stream[i], RELATED_QUESTIONS_DELIMITER)}

====
